---- MODULE Spec2Model ----
(***************************************************************************)
(* A model of the "use runner" directive transform of swc-plugin-runners   *)
(* (packages/swc-plugin-runners/src/lib.rs): the typo detector             *)
(* detect_similar_strings, the directive stripper and the three visitor    *)
(* handlers of RunnerTransform, run over bounded syntax trees; and of      *)
(* schema-extractor (packages/runners/schema-extractor/src): runner        *)
(* discovery and schema matching over a file's syntax tree, process_file   *)
(* and main's loop over the glob results.                                  *)
(***************************************************************************)
EXTENDS Integers, Sequences, FiniteSets, TLC

\* The longest program, counted in tokens of its pre-order rendering.
MaxTokens == 5
\* The longest string handed to detect_similar_strings on its own.
MaxStrLen == 3
\* The longest statement list handed to remove_directive_from_stmts on its own.
MaxStmts == 3
\* The most declarations in a source file handed to discovery on its own.
MaxDecls == 2
\* The most files in the file system schema-extractor runs on.
MaxFiles == 2
\* The patterns in the default of --patterns, "src/**/*.ts,runners/**/*.ts".
DefaultPatterns == 2

VARIABLES
    input,                       \* the tree as parsed, before the transform
    program,                     \* the tree the visitor mutates in place
    diags,                       \* what emit_error handed to HANDLER, in order
    stack,                       \* the visitor's pending calls (its call stack)
    pc,                          \* "start", "running", "done"; "off" outside the transform
    has_module_directive,        \* RunnerTransform.has_module_directive
    in_function_with_directive,  \* RunnerTransform.in_function_with_directive
    pass,                        \* 1 in the first run; 2 in a run on the first run's output
    first_program,               \* the tree the first run left
    first_diags,                 \* what the first run emitted
    arg_a, arg_b,                \* the arguments of a lone detect_similar_strings call
    similar,                     \* its result
    dpc,                         \* "call", "returned"; "off" outside that call
    strip_stmts,                 \* the argument of a lone remove_directive_from_stmts call
    strip_once, strip_twice,     \* what it leaves, and what a second call on that leaves
    spc,                         \* "call", "once", "twice"; "off" outside that call
    decls, one_line,             \* a source file: its declarations, and whether it is one line
    runners,                     \* what find_exported_runners returned for it
    schemas,                     \* what find_exported_schemas returned for it
    xpc,                         \* "call", "runners", "schemas"; "off" outside discovery
    files,                       \* the file system schema-extractor runs on
    globbed,                     \* per pattern, what glob returned for it
    pattern_index, entry_index,  \* main's position in its two loops
    all_metadata,                \* main's all_metadata
    parsed,                      \* the files handed to find_exported_runners, in order
    epc                          \* "pattern", "entries", "output", "written", "exit 1";
                                 \* "off" outside main

transformVars ==
    <<input, program, diags, stack, pc, has_module_directive, in_function_with_directive,
      pass, first_program, first_diags>>
detectVars == <<arg_a, arg_b, similar, dpc>>
stripVars == <<strip_stmts, strip_once, strip_twice, spc>>
discoverVars == <<decls, one_line, runners, schemas, xpc>>
extractVars == <<files, globbed, pattern_index, entry_index, all_metadata, parsed, epc>>
extractorVars == <<discoverVars, extractVars>>
outsideTransform == <<detectVars, stripVars, extractorVars>>
vars == <<transformVars, outsideTransform>>

----------------------------------------------------------------------------
(* Strings; detect_similar_strings works on their characters (Vec<char>). *)

\* The literals of the model's programs and their characters (str::chars).
Chars(str) ==
    CASE str = "use runner"  -> <<"u", "s", "e", " ", "r", "u", "n", "n", "e", "r">>
      [] str = "use runnerr" -> <<"u", "s", "e", " ", "r", "u", "n", "n", "e", "r", "r">>
      [] str = "use walker"  -> <<"u", "s", "e", " ", "w", "a", "l", "k", "e", "r">>
      [] str = ""            -> <<>>
      [] str = "schema"      -> <<"s", "c", "h", "e", "m", "a">>
      [] str = "src"         -> <<"s", "r", "c">>
      [] str = "node_modules" ->
             <<"n", "o", "d", "e", "_", "m", "o", "d", "u", "l", "e", "s">>
      [] str = "/dist/"      -> <<"/", "d", "i", "s", "t", "/">>
      [] str = "/.nitro/"    -> <<"/", ".", "n", "i", "t", "r", "o", "/">>
      [] str = "fetchData"   -> <<"f", "e", "t", "c", "h", "D", "a", "t", "a">>
      [] str = "fetchDataSchema" ->
             <<"f", "e", "t", "c", "h", "D", "a", "t", "a", "S", "c", "h", "e", "m", "a">>
      [] str = "FetchDataSchema" ->
             <<"F", "e", "t", "c", "h", "D", "a", "t", "a", "S", "c", "h", "e", "m", "a">>

Abs(n) == IF n < 0 THEN -n ELSE n

\* detect_loop with every mismatch taken for a substitution.
RECURSIVE detect_loop_substitutions_only(_, _, _, _, _)
detect_loop_substitutions_only(a_chars, b_chars, i, j, differences) ==
    IF i < Len(a_chars) /\ j < Len(b_chars)
    THEN IF a_chars[i + 1] # b_chars[j + 1]
         THEN IF differences + 1 > 1
              THEN FALSE
              ELSE detect_loop_substitutions_only(a_chars, b_chars, i + 1, j + 1,
                                                  differences + 1)
         ELSE detect_loop_substitutions_only(a_chars, b_chars, i + 1, j + 1, differences)
    ELSE differences + (Len(a_chars) - i) + (Len(b_chars) - j) = 1

\* detect_loop without the branch for a longer b.
RECURSIVE detect_loop_no_longer_b(_, _, _, _, _)
detect_loop_no_longer_b(a_chars, b_chars, i, j, differences) ==
    IF i < Len(a_chars) /\ j < Len(b_chars)
    THEN IF a_chars[i + 1] # b_chars[j + 1]
         THEN IF differences + 1 > 1
              THEN FALSE
              ELSE IF Len(a_chars) > Len(b_chars)
                   THEN detect_loop_no_longer_b(a_chars, b_chars, i + 1, j, differences + 1)
                   ELSE detect_loop_no_longer_b(a_chars, b_chars, i + 1, j + 1,
                                                differences + 1)
         ELSE detect_loop_no_longer_b(a_chars, b_chars, i + 1, j + 1, differences)
    ELSE differences + (Len(a_chars) - i) + (Len(b_chars) - j) = 1

\* The while loop of detect_similar_strings; i and j are the code's 0-based
\* cursors, differences its counter.  The last line is the function's tail
\* expression.
RECURSIVE detect_loop(_, _, _, _, _)
detect_loop(a_chars, b_chars, i, j, differences) ==
    IF i < Len(a_chars) /\ j < Len(b_chars)
    THEN IF a_chars[i + 1] # b_chars[j + 1]
         THEN IF differences + 1 > 1
              THEN FALSE
              ELSE IF Len(a_chars) > Len(b_chars)
                   THEN detect_loop(a_chars, b_chars, i + 1, j, differences + 1)
                   ELSE IF Len(b_chars) > Len(a_chars)
                        THEN detect_loop(a_chars, b_chars, i, j + 1, differences + 1)
                        ELSE detect_loop(a_chars, b_chars, i + 1, j + 1, differences + 1)
         ELSE detect_loop(a_chars, b_chars, i + 1, j + 1, differences)
    ELSE differences + (Len(a_chars) - i) + (Len(b_chars) - j) = 1

detect_similar_strings(a_chars, b_chars) ==
    IF Abs(Len(a_chars) - Len(b_chars)) > 1
    THEN FALSE
    ELSE detect_loop(a_chars, b_chars, 0, 0, 0)

is_use_runner_directive(value) == value = "use runner"

\* check_directive_typo comparing lengths only.
check_directive_typo_by_length(value) ==
    Abs(Len(Chars(value)) - Len(Chars("use runner"))) <= 1

check_directive_typo(value) == detect_similar_strings(Chars(value), Chars("use runner"))

----------------------------------------------------------------------------
(* Syntax trees.  A program is rendered in pre-order as a token sequence:  *)
(* a statement token, or an opening token of a function or arrow function  *)
(* whose body runs to the matching "close".  A token's position is the     *)
(* span of the statement it stands for, and the id of the scope it opens;  *)
(* scope 0 is the module.                                                   *)

\* Expression statements: three string literals and one that is no literal.
StmtTokens == {"use runner", "use runnerr", "use walker", "expr"}
\* A declared function, async or not, and a block-bodied arrow function.
OpenTokens == {"async function", "function", "arrow"}
CloseToken == "close"

Tokens == StmtTokens \cup OpenTokens \cup {CloseToken}

IsOpen(tok) == tok \in OpenTokens

\* Every "close" closes a scope opened before it, and no scope stays open;
\* depth counts the scopes open before position k.
RECURSIVE WellNestedFrom(_, _, _)
WellNestedFrom(toks, k, depth) ==
    IF k > Len(toks)
    THEN depth = 0
    ELSE IF toks[k] = CloseToken
         THEN depth > 0 /\ WellNestedFrom(toks, k + 1, depth - 1)
         ELSE IF IsOpen(toks[k])
              THEN WellNestedFrom(toks, k + 1, depth + 1)
              ELSE WellNestedFrom(toks, k + 1, depth)

WellNested(toks) == WellNestedFrom(toks, 1, 0)

Stmt(toks, k) ==
    [span  |-> k,
     kind  |-> CASE toks[k] = "expr" -> "expr"
                 [] toks[k] = "arrow" -> "arrow"
                 [] toks[k] \in {"async function", "function"} -> "function"
                 [] OTHER -> "lit",
     value |-> IF toks[k] \in {"use runner", "use runnerr", "use walker"}
               THEN toks[k] ELSE ""]

Scope(kind, is_async) == [kind |-> kind, is_async |-> is_async, stmts |-> <<>>]

\* The tree of toks[k..]: open is the stack of the scopes open at position k
\* (innermost last), tree what the tokens before k built.  A statement goes
\* to the innermost open scope; an opening token also starts a scope.
RECURSIVE ParseFrom(_, _, _, _)
ParseFrom(toks, k, open, tree) ==
    IF k > Len(toks)
    THEN tree
    ELSE IF toks[k] = CloseToken
         THEN ParseFrom(toks, k + 1, SubSeq(open, 1, Len(open) - 1), tree)
         ELSE LET held == [tree EXCEPT ![open[Len(open)]].stmts = Append(@, Stmt(toks, k))]
              IN  IF IsOpen(toks[k])
                  THEN ParseFrom(toks, k + 1, Append(open, k),
                           held @@ (k :> Scope(Stmt(toks, k).kind,
                                               toks[k] = "async function")))
                  ELSE ParseFrom(toks, k + 1, open, held)

\* Every scope's kind, async flag and statements.
Parse(toks) == ParseFrom(toks, 1, <<0>>, 0 :> Scope("module", FALSE))

IsStrLit(stmt) == stmt.kind = "lit"
\* Stmt::Expr: a literal, another expression, or an arrow function expression;
\* a function declaration is Stmt::Decl.
IsExprStmt(stmt) == stmt.kind \in {"lit", "expr", "arrow"}
IsChild(stmt) == stmt.kind \in {"function", "arrow"}

----------------------------------------------------------------------------
(* Diagnostics (RunnerErrorKind), as emit_error receives them.             *)

NonAsyncFunction(span) ==
    [kind |-> "NonAsyncFunction", span |-> span, location |-> "none", directive |-> ""]
MisplacedDirective(span, location) ==
    [kind |-> "MisplacedDirective", span |-> span, location |-> location, directive |-> ""]
MisspelledDirective(span, directive) ==
    [kind |-> "MisspelledDirective", span |-> span, location |-> "none", directive |-> directive]

----------------------------------------------------------------------------
(* The directive stripper and the handlers' computations on one scope.     *)

\* retain_stmt dropping every string-literal statement.
retain_no_literal(stmt) == ~(IsExprStmt(stmt) /\ IsStrLit(stmt))

\* retain's predicate: FALSE for a statement that is dropped.
retain_stmt(stmt) ==
    ~(IsExprStmt(stmt) /\ IsStrLit(stmt)
        /\ (is_use_runner_directive(stmt.value) \/ check_directive_typo(stmt.value)))

\* remove_directive_from_stmts dropping only the first statement retain drops.
RECURSIVE remove_first_directive(_)
remove_first_directive(stmts) ==
    IF stmts = <<>>
    THEN <<>>
    ELSE IF retain_stmt(Head(stmts))
         THEN <<Head(stmts)>> \o remove_first_directive(Tail(stmts))
         ELSE Tail(stmts)

remove_directive_from_stmts(stmts) == SelectSeq(stmts, retain_stmt)

\* The scan loop of visit_mut_module from item index (1-based) on; acc holds
\* found_directive, directive_span (0 is None), non_directive_before and the
\* errors emitted so far.  The loop breaks at the first exact directive.
RECURSIVE module_scan_from(_, _, _)
module_scan_from(items, index, acc) ==
    IF index > Len(items)
    THEN acc
    ELSE LET item == items[index] IN
         IF IsExprStmt(item)
         THEN IF IsStrLit(item)
              THEN IF is_use_runner_directive(item.value)
                   THEN [acc EXCEPT !.found_directive = TRUE,
                                    !.directive_span = item.span,
                                    !.non_directive_before = @ \/ (index - 1 > 0)]
                   ELSE IF check_directive_typo(item.value)
                        THEN module_scan_from(items, index + 1,
                                 [acc EXCEPT !.errors =
                                     Append(@, MisspelledDirective(item.span, item.value))])
                        ELSE module_scan_from(items, index + 1, acc)
              ELSE module_scan_from(items, index + 1,
                       [acc EXCEPT !.non_directive_before = @ \/ ~acc.found_directive])
         ELSE module_scan_from(items, index + 1,
                  [acc EXCEPT !.non_directive_before = @ \/ ~acc.found_directive])

module_scan(items) ==
    module_scan_from(items, 1,
        [found_directive |-> FALSE, directive_span |-> 0,
         non_directive_before |-> FALSE, errors |-> <<>>])

\* module_errors without the test of non_directive_before.
module_errors_any_position(items) ==
    LET scan == module_scan(items) IN
    scan.errors \o
        (IF scan.found_directive /\ scan.directive_span # 0
         THEN <<MisplacedDirective(scan.directive_span, "Module")>>
         ELSE <<>>)

\* What visit_mut_module emits before it visits its children.
module_errors(items) ==
    LET scan == module_scan(items) IN
    scan.errors \o
        (IF scan.found_directive /\ scan.non_directive_before /\ scan.directive_span # 0
         THEN <<MisplacedDirective(scan.directive_span, "Module")>>
         ELSE <<>>)

\* non_async_errors without the test of is_async.
non_async_errors_unchecked(is_async, span) == <<NonAsyncFunction(span)>>

\* The async check of visit_mut_function on a recognized directive.
non_async_errors(is_async, span) ==
    IF ~is_async THEN <<NonAsyncFunction(span)>> ELSE <<>>

\* function_first_stmt dropping the first statement alone.
function_first_stmt_drops_first(is_async, stmts) ==
    LET none == [errors |-> <<>>, stmts |-> stmts, directive |-> FALSE] IN
    IF stmts = <<>> THEN none
    ELSE LET first_stmt == stmts[1] IN
         IF IsExprStmt(first_stmt) /\ IsStrLit(first_stmt)
         THEN IF is_use_runner_directive(first_stmt.value)
              THEN [errors    |-> non_async_errors(is_async, first_stmt.span),
                    stmts     |-> Tail(stmts),
                    directive |-> TRUE]
              ELSE IF check_directive_typo(first_stmt.value)
                   THEN [errors    |-> <<MisspelledDirective(first_stmt.span,
                                                             first_stmt.value)>>,
                         stmts     |-> Tail(stmts),
                         directive |-> FALSE]
                   ELSE none
         ELSE none

\* The first-statement check of visit_mut_function: the errors it emits,
\* the statements it leaves and whether the directive was recognized.
function_first_stmt(is_async, stmts) ==
    LET none == [errors |-> <<>>, stmts |-> stmts, directive |-> FALSE] IN
    IF stmts = <<>> THEN none
    ELSE LET first_stmt == stmts[1] IN
         IF IsExprStmt(first_stmt) /\ IsStrLit(first_stmt)
         THEN IF is_use_runner_directive(first_stmt.value)
              THEN [errors    |-> non_async_errors(is_async, first_stmt.span),
                    stmts     |-> remove_directive_from_stmts(stmts),
                    directive |-> TRUE]
              ELSE IF check_directive_typo(first_stmt.value)
                   THEN [errors    |-> <<MisspelledDirective(first_stmt.span,
                                                             first_stmt.value)>>,
                         stmts     |-> remove_directive_from_stmts(stmts),
                         directive |-> FALSE]
                   ELSE none
         ELSE none

\* The first-statement check of visit_mut_arrow_expr: an exact directive
\* does nothing here, a typo is reported and the list stripped.
arrow_first_stmt(stmts) ==
    LET none == [errors |-> <<>>, stmts |-> stmts] IN
    IF stmts = <<>> THEN none
    ELSE LET first_stmt == stmts[1] IN
         IF IsExprStmt(first_stmt) /\ IsStrLit(first_stmt)
                /\ ~is_use_runner_directive(first_stmt.value)
                /\ check_directive_typo(first_stmt.value)
         THEN [errors |-> <<MisspelledDirective(first_stmt.span, first_stmt.value)>>,
               stmts  |-> remove_directive_from_stmts(stmts)]
         ELSE none

\* The misplaced-directive loop both function handlers run: one error for
\* every exact directive at a 0-based index above 0, in order.
RECURSIVE misplaced_from(_, _)
misplaced_from(stmts, index) ==
    IF index > Len(stmts)
    THEN <<>>
    ELSE LET stmt == stmts[index] IN
         (IF index - 1 > 0 /\ IsExprStmt(stmt) /\ IsStrLit(stmt)
                /\ is_use_runner_directive(stmt.value)
          THEN <<MisplacedDirective(stmt.span, "FunctionBody")>>
          ELSE <<>>) \o misplaced_from(stmts, index + 1)

misplaced_errors(stmts) == misplaced_from(stmts, 1)

\* remove_if_misplaced without the removal.
keep_misplaced(stmts) == stmts

\* The loop's found_misplaced and the removal it guards.
remove_if_misplaced(stmts) ==
    IF misplaced_errors(stmts) # <<>> THEN remove_directive_from_stmts(stmts) ELSE stmts

\* visit_mut_function on a body, up to the visit of its children.
function_body(is_async, stmts) ==
    LET first == function_first_stmt(is_async, stmts) IN
    [errors    |-> first.errors \o misplaced_errors(first.stmts),
     stmts     |-> remove_if_misplaced(first.stmts),
     directive |-> first.directive]

\* visit_mut_arrow_expr on a block body, up to the visit of its children.
arrow_body(stmts) ==
    LET first == arrow_first_stmt(stmts) IN
    [errors |-> first.errors \o misplaced_errors(first.stmts),
     stmts  |-> remove_directive_from_stmts(remove_if_misplaced(first.stmts))]

\* visit_mut_children_with: the nested functions of a statement list, in order.
RECURSIVE child_visits(_)
child_visits(stmts) ==
    IF stmts = <<>>
    THEN <<>>
    ELSE (IF IsChild(Head(stmts))
          THEN <<[op |-> "visit", scope |-> Head(stmts).span, had_directive |-> FALSE]>>
          ELSE <<>>) \o child_visits(Tail(stmts))

----------------------------------------------------------------------------
(* The transform as a state machine.                                       *)

DetectOff ==
    /\ arg_a = <<>>
    /\ arg_b = <<>>
    /\ similar = FALSE
    /\ dpc = "off"

StripOff ==
    /\ strip_stmts = <<>>
    /\ strip_once = <<>>
    /\ strip_twice = <<>>
    /\ spc = "off"

DiscoverOff ==
    /\ decls = <<>>
    /\ one_line = FALSE
    /\ runners = <<>>
    /\ schemas = <<>>
    /\ xpc = "off"

ExtractOff ==
    /\ files = <<>>
    /\ globbed = <<>>
    /\ pattern_index = 0
    /\ entry_index = 0
    /\ all_metadata = <<>>
    /\ parsed = <<>>
    /\ epc = "off"

ExtractorOff == DiscoverOff /\ ExtractOff

TransformOff ==
    /\ input = Parse(<<>>)
    /\ program = input
    /\ diags = <<>>
    /\ stack = <<>>
    /\ pc = "off"
    /\ has_module_directive = FALSE
    /\ in_function_with_directive = FALSE
    /\ pass = 1
    /\ first_program = input
    /\ first_diags = <<>>

\* A parsed program and a fresh RunnerTransform.
Init ==
    /\ \E n \in 0..MaxTokens : \E toks \in [1..n -> Tokens] :
           WellNested(toks) /\ input = Parse(toks)
    /\ program = input
    /\ diags = <<>>
    /\ stack = <<>>
    /\ pc = "start"
    /\ has_module_directive = FALSE
    /\ in_function_with_directive = FALSE
    /\ pass = 1
    /\ first_program = input
    /\ first_diags = <<>>
    /\ DetectOff
    /\ StripOff
    /\ ExtractorOff

\* process_transform: program.visit_mut_with(&mut visitor).
process_transform ==
    /\ pc = "start"
    /\ pc' = "running"
    /\ stack' = <<[op |-> "visit", scope |-> 0, had_directive |-> FALSE]>>
    /\ UNCHANGED <<input, program, diags, has_module_directive,
                   in_function_with_directive, pass, first_program, first_diags,
                   outsideTransform>>

\* process_transform once more, on the tree the first run left, with a fresh
\* RunnerTransform and a fresh handler.
process_transform_again ==
    /\ pc = "done" /\ pass = 1
    /\ pass' = 2
    /\ first_program' = program
    /\ first_diags' = diags
    /\ diags' = <<>>
    /\ has_module_directive' = FALSE
    /\ in_function_with_directive' = FALSE
    /\ pc' = "running"
    /\ stack' = <<[op |-> "visit", scope |-> 0, had_directive |-> FALSE]>>
    /\ UNCHANGED <<input, program, outsideTransform>>

Top == Head(stack)

\* visit_mut_module up to and including the call that visits the children.
visit_mut_module ==
    /\ pc = "running" /\ stack # <<>>
    /\ Top.op = "visit" /\ program[Top.scope].kind = "module"
    /\ LET items == program[Top.scope].stmts IN
       /\ diags' = diags \o module_errors(items)
       /\ has_module_directive' =
              (has_module_directive \/ module_scan(items).found_directive)
       /\ stack' = child_visits(items)
                       \o <<[op |-> "retain", scope |-> Top.scope, had_directive |-> FALSE]>>
                       \o Tail(stack)
    /\ UNCHANGED <<input, program, pc, in_function_with_directive, pass,
                   first_program, first_diags, outsideTransform>>

\* visit_mut_module after its children: module.body.retain(...).
visit_mut_module_retain ==
    /\ pc = "running" /\ stack # <<>>
    /\ Top.op = "retain"
    /\ program' = [program EXCEPT ![Top.scope].stmts = SelectSeq(@, retain_stmt)]
    /\ stack' = Tail(stack)
    /\ pc' = IF Tail(stack) = <<>> THEN "done" ELSE pc
    /\ UNCHANGED <<input, diags, has_module_directive, in_function_with_directive,
                   pass, first_program, first_diags, outsideTransform>>

\* visit_mut_function up to and including the call that visits the children.
visit_mut_function ==
    /\ pc = "running" /\ stack # <<>>
    /\ Top.op = "visit" /\ program[Top.scope].kind = "function"
    /\ LET out == function_body(program[Top.scope].is_async, program[Top.scope].stmts) IN
       /\ diags' = diags \o out.errors
       /\ program' = [program EXCEPT ![Top.scope].stmts = out.stmts]
       /\ in_function_with_directive' = out.directive
       /\ stack' = child_visits(out.stmts)
                       \o <<[op |-> "leave", scope |-> Top.scope,
                             had_directive |-> in_function_with_directive]>>
                       \o Tail(stack)
    /\ UNCHANGED <<input, pc, has_module_directive, pass, first_program,
                   first_diags, outsideTransform>>

\* visit_mut_function after its children: the flag is restored.
visit_mut_function_leave ==
    /\ pc = "running" /\ stack # <<>>
    /\ Top.op = "leave"
    /\ in_function_with_directive' = Top.had_directive
    /\ stack' = Tail(stack)
    /\ UNCHANGED <<input, program, diags, pc, has_module_directive, pass, first_program,
                   first_diags, outsideTransform>>

\* visit_mut_arrow_expr, whose last step is the visit of its children.
visit_mut_arrow_expr ==
    /\ pc = "running" /\ stack # <<>>
    /\ Top.op = "visit" /\ program[Top.scope].kind = "arrow"
    /\ LET out == arrow_body(program[Top.scope].stmts) IN
       /\ diags' = diags \o out.errors
       /\ program' = [program EXCEPT ![Top.scope].stmts = out.stmts]
       /\ stack' = child_visits(out.stmts) \o Tail(stack)
    /\ UNCHANGED <<input, pc, has_module_directive, in_function_with_directive,
                   pass, first_program, first_diags, outsideTransform>>

Next ==
    \/ process_transform
    \/ process_transform_again
    \/ visit_mut_module
    \/ visit_mut_module_retain
    \/ visit_mut_function
    \/ visit_mut_function_leave
    \/ visit_mut_arrow_expr

Spec == Init /\ [][Next]_vars

----------------------------------------------------------------------------
(* detect_similar_strings on its own, over all short strings.              *)

Alphabet == {"n", "r", "e"}
Strings == UNION {[1..n -> Alphabet] : n \in 0..MaxStrLen}

DetectInit ==
    /\ arg_a \in Strings
    /\ arg_b \in Strings
    /\ similar = FALSE
    /\ dpc = "call"
    /\ TransformOff
    /\ StripOff
    /\ ExtractorOff

Detect ==
    /\ dpc = "call"
    /\ similar' = detect_similar_strings(arg_a, arg_b)
    /\ dpc' = "returned"
    /\ UNCHANGED <<arg_a, arg_b, transformVars, stripVars, extractorVars>>

DetectNext == Detect

DetectSpec == DetectInit /\ [][DetectNext]_vars

----------------------------------------------------------------------------
(* remove_directive_from_stmts on its own, over all short statement lists, *)
(* called on a list and then on what it left.                              *)

StmtShapes ==
    { [kind |-> "lit", value |-> "use runner"], [kind |-> "lit", value |-> "use runnerr"],
      [kind |-> "lit", value |-> "use walker"], [kind |-> "expr", value |-> ""],
      [kind |-> "function", value |-> ""], [kind |-> "arrow", value |-> ""] }

StripInit ==
    /\ \E n \in 0..MaxStmts : \E shapes \in [1..n -> StmtShapes] :
           strip_stmts = [k \in 1..n |->
                             [span |-> k, kind |-> shapes[k].kind, value |-> shapes[k].value]]
    /\ strip_once = <<>>
    /\ strip_twice = <<>>
    /\ spc = "call"
    /\ TransformOff
    /\ DetectOff
    /\ ExtractorOff

StripOnce ==
    /\ spc = "call"
    /\ strip_once' = remove_directive_from_stmts(strip_stmts)
    /\ spc' = "once"
    /\ UNCHANGED <<strip_stmts, strip_twice, transformVars, detectVars, extractorVars>>

StripTwice ==
    /\ spc = "once"
    /\ strip_twice' = remove_directive_from_stmts(strip_once)
    /\ spc' = "twice"
    /\ UNCHANGED <<strip_stmts, strip_once, transformVars, detectVars, extractorVars>>

StripNext == StripOnce \/ StripTwice

StripSpec == StripInit /\ [][StripNext]_vars

----------------------------------------------------------------------------
(* Export/runner discovery and the schema matcher of schema-extractor      *)
(* (packages/runners/schema-extractor/src/ast.rs).  A source file is a     *)
(* pre-order list of declarations, each with its nesting depth; Source is  *)
(* its text, token by token, and Tree the syntax tree the parser hands to  *)
(* the walkers for it.                                                      *)

Names == {"fetchData", "fetchDataSchema", "FetchDataSchema"}
Forms == {"async function", "function", "const async arrow", "const arrow", "const object"}
Decls == [exported : BOOLEAN, form : Forms, name : Names, depth : 0..(MaxDecls - 1)]

HasBody(decl) == decl.form # "const object"
IsFunctionForm(decl) == decl.form \in {"async function", "function"}
IsAsyncForm(decl) == decl.form \in {"async function", "const async arrow"}

\* A declaration nests at most one level below the one written before it,
\* and only inside a body; the export keyword is written at the top level only.
Nested(ds) ==
    \A k \in 1..Len(ds) :
        /\ IF k = 1 THEN ds[k].depth = 0
           ELSE ds[k].depth <= ds[k - 1].depth + (IF HasBody(ds[k - 1]) THEN 1 ELSE 0)
        /\ ds[k].exported => ds[k].depth = 0

\* The declaration whose body holds declaration k; 0 at the top level.
Encloser(ds, k) ==
    IF ds[k].depth = 0 THEN 0
    ELSE CHOOSE j \in 1..(k - 1) :
             /\ ds[j].depth = ds[k].depth - 1
             /\ \A i \in (j + 1)..(k - 1) : ds[i].depth >= ds[k].depth

Header(decl) ==
    (IF decl.exported THEN <<"export">> ELSE <<>>) \o
    CASE decl.form = "async function"    -> <<"async", "function", decl.name, "()", "{">>
      [] decl.form = "function"          -> <<"function", decl.name, "()", "{">>
      [] decl.form = "const async arrow" -> <<"const", decl.name, "=", "async", "()", "=>", "{">>
      [] decl.form = "const arrow"       -> <<"const", decl.name, "=", "()", "=>", "{">>
      [] decl.form = "const object"      -> <<"const", decl.name, "=", "{}">>

Closers(count) == [k \in 1..count |-> "}"]

\* The text of the file and, for each declaration, where its first token is.
RECURSIVE SourceFrom(_, _, _, _, _, _)
SourceFrom(ds, single, k, open, content, starts) ==
    IF k > Len(ds)
    THEN [content |-> content \o Closers(open), starts |-> starts]
    ELSE LET closed == content \o Closers(open - ds[k].depth)
             before == IF k = 1 THEN closed
                       ELSE closed \o (IF single THEN <<";">> ELSE <<"\n">>)
         IN  SourceFrom(ds, single, k + 1,
                        ds[k].depth + (IF HasBody(ds[k]) THEN 1 ELSE 0),
                        before \o Header(ds[k]),
                        Append(starts, Len(before) + 1))

Source(ds, single) == SourceFrom(ds, single, 1, 0, <<>>, <<>>)

\* Node ids: 0 is the program; declaration k owns NodeBase(k) + 0..11.
NoNode == -1
NodeBase(k) == 16 * k
ExportStatement(k) == NodeBase(k)
ExportKeyword(k) == NodeBase(k) + 1
Declaration(k) == NodeBase(k) + 2
AsyncKeyword(k) == NodeBase(k) + 3
LeadKeyword(k) == NodeBase(k) + 4
Identifier(k) == NodeBase(k) + 5
FormalParameters(k) == NodeBase(k) + 6
StatementBlock(k) == NodeBase(k) + 7
VariableDeclarator(k) == NodeBase(k) + 8
EqualsSign(k) == NodeBase(k) + 9
Value(k) == NodeBase(k) + 10
Arrow(k) == NodeBase(k) + 11

Outermost(ds, k) == IF ds[k].exported THEN ExportStatement(k) ELSE Declaration(k)

Node(kind, parent, children, start) ==
    [kind |-> kind, parent |-> parent, children |-> children, start |-> start]

Within(ds, j) == SelectSeq([k \in 1..Len(ds) |-> k], LAMBDA k : Encloser(ds, k) = j)
OutermostOf(ds, ks) == [i \in 1..Len(ks) |-> Outermost(ds, ks[i])]

\* The nodes of declaration k, its first token being at position p.
DeclNodes(ds, k, p) ==
    LET d == ds[k]
        e == IF d.exported THEN 1 ELSE 0
        a == IF IsAsyncForm(d) THEN 1 ELSE 0
        up == IF d.exported THEN ExportStatement(k)
              ELSE IF Encloser(ds, k) = 0 THEN 0 ELSE StatementBlock(Encloser(ds, k))
        outer == IF d.exported
                 THEN (ExportStatement(k) :>
                           Node("export_statement",
                                IF Encloser(ds, k) = 0 THEN 0
                                ELSE StatementBlock(Encloser(ds, k)),
                                <<ExportKeyword(k), Declaration(k)>>, p))
                      @@ (ExportKeyword(k) :> Node("export", ExportStatement(k), <<>>, p))
                 ELSE <<>>
        block == OutermostOf(ds, Within(ds, k))
    IN  IF IsFunctionForm(d)
        THEN outer
             @@ (Declaration(k) :>
                     Node("function_declaration", up,
                          (IF a = 1 THEN <<AsyncKeyword(k)>> ELSE <<>>) \o
                          <<LeadKeyword(k), Identifier(k), FormalParameters(k),
                            StatementBlock(k)>>, p + e))
             @@ (IF a = 1
                 THEN AsyncKeyword(k) :> Node("async", Declaration(k), <<>>, p + e)
                 ELSE <<>>)
             @@ (LeadKeyword(k) :> Node("function", Declaration(k), <<>>, p + e + a))
             @@ (Identifier(k) :> Node("identifier", Declaration(k), <<>>, p + e + a + 1))
             @@ (FormalParameters(k) :>
                     Node("formal_parameters", Declaration(k), <<>>, p + e + a + 2))
             @@ (StatementBlock(k) :>
                     Node("statement_block", Declaration(k), block, p + e + a + 3))
        ELSE outer
             @@ (Declaration(k) :>
                     Node("lexical_declaration", up,
                          <<LeadKeyword(k), VariableDeclarator(k)>>, p + e))
             @@ (LeadKeyword(k) :> Node("const", Declaration(k), <<>>, p + e))
             @@ (VariableDeclarator(k) :>
                     Node("variable_declarator", Declaration(k),
                          <<Identifier(k), EqualsSign(k), Value(k)>>, p + e + 1))
             @@ (Identifier(k) :>
                     Node("identifier", VariableDeclarator(k), <<>>, p + e + 1))
             @@ (EqualsSign(k) :> Node("=", VariableDeclarator(k), <<>>, p + e + 2))
             @@ (IF d.form = "const object"
                 THEN Value(k) :> Node("object", VariableDeclarator(k), <<>>, p + e + 3)
                 ELSE (Value(k) :>
                           Node("arrow_function", VariableDeclarator(k),
                                (IF a = 1 THEN <<AsyncKeyword(k)>> ELSE <<>>) \o
                                <<FormalParameters(k), Arrow(k), StatementBlock(k)>>,
                                p + e + 3))
                      @@ (IF a = 1
                          THEN AsyncKeyword(k) :> Node("async", Value(k), <<>>, p + e + 3)
                          ELSE <<>>)
                      @@ (FormalParameters(k) :>
                              Node("formal_parameters", Value(k), <<>>, p + e + 3 + a))
                      @@ (Arrow(k) :> Node("=>", Value(k), <<>>, p + e + 4 + a))
                      @@ (StatementBlock(k) :>
                              Node("statement_block", Value(k), block, p + e + 5 + a)))

RECURSIVE TreeFrom(_, _, _)
TreeFrom(ds, starts, k) ==
    IF k > Len(ds)
    THEN 0 :> Node("program", NoNode, OutermostOf(ds, Within(ds, 0)), 1)
    ELSE DeclNodes(ds, k, starts[k]) @@ TreeFrom(ds, starts, k + 1)

\* Option<T>: None is the empty sequence, Some(x) is <<x>>.
None == <<>>
Some(x) == <<x>>

\* get_line_number: the newlines before the node's first token, plus one.
get_line_number(tree, content, node) ==
    Cardinality({i \in 1..(tree[node].start - 1) : content[i] = "\n"}) + 1

RECURSIVE has_export_ancestor(_, _)
has_export_ancestor(tree, current) ==
    IF current = NoNode THEN FALSE
    ELSE \/ tree[current].kind = "export_statement"
         \/ has_export_ancestor(tree, tree[current].parent)

FirstChildIs(tree, node, kind) ==
    /\ node # NoNode
    /\ tree[node].children # <<>>
    /\ tree[tree[node].children[1]].kind = kind

is_exported(tree, node) ==
    \/ tree[node].kind = "export_statement"
    \/ has_export_ancestor(tree, tree[node].parent)
    \/ FirstChildIs(tree, node, "export")
    \/ FirstChildIs(tree, tree[node].parent, "export")

IsIdentifier(tree, node) == tree[node].kind \in {"identifier", "property_identifier"}

\* extract_function_name: the text of the first identifier child.
extract_function_name(tree, content, node) ==
    LET ids == SelectSeq(tree[node].children, LAMBDA child : IsIdentifier(tree, child))
    IN  IF ids = <<>> THEN None ELSE Some(content[tree[ids[1]].start])

HasAsyncChild(tree, node) ==
    \E i \in 1..Len(tree[node].children) : tree[tree[node].children[i]].kind = "async"

is_async_function(tree, node) ==
    \/ HasAsyncChild(tree, node)
    \/ tree[node].parent # NoNode /\ HasAsyncChild(tree, tree[node].parent)

RunnerInfo(name, line) == [name |-> name, line |-> line]
SchemaInfo(name, runner_name, line) == [name |-> name, runner_name |-> runner_name, line |-> line]

\* The inner loop of find_exported_runners::walk_node over the children of
\* one variable_declarator.
RECURSIVE runners_of_declarator(_, _, _, _, _)
runners_of_declarator(tree, content, node, child, j) ==
    IF j > Len(tree[child].children) THEN <<>>
    ELSE LET value_node == tree[child].children[j]
             name_node == tree[child].children[1]
         IN  (IF /\ tree[value_node].kind = "arrow_function"
                 /\ is_async_function(tree, value_node)
                 /\ IsIdentifier(tree, name_node)
              THEN <<RunnerInfo(content[tree[name_node].start],
                                get_line_number(tree, content, node))>>
              ELSE <<>>)
             \o runners_of_declarator(tree, content, node, child, j + 1)

\* Its outer loop over the children of the declaration.
RECURSIVE runners_of_declaration(_, _, _, _)
runners_of_declaration(tree, content, node, i) ==
    IF i > Len(tree[node].children) THEN <<>>
    ELSE LET child == tree[node].children[i]
         IN  (IF tree[child].kind = "variable_declarator"
              THEN runners_of_declarator(tree, content, node, child, 1)
              ELSE <<>>)
             \o runners_of_declaration(tree, content, node, i + 1)

\* The match of find_exported_runners::walk_node on the node's kind.
runners_at(tree, content, node) ==
    CASE tree[node].kind = "function_declaration" ->
             IF is_exported(tree, node) /\ is_async_function(tree, node)
             THEN LET name == extract_function_name(tree, content, node)
                  IN  IF name # None
                      THEN <<RunnerInfo(name[1], get_line_number(tree, content, node))>>
                      ELSE <<>>
             ELSE <<>>
      [] tree[node].kind \in {"lexical_declaration", "variable_declaration"} ->
             IF is_exported(tree, node)
             THEN runners_of_declaration(tree, content, node, 1)
             ELSE <<>>
      [] OTHER -> <<>>

RECURSIVE runners_walk_node(_, _, _)
RECURSIVE runners_walk_children(_, _, _)

\* runners_walk_node visiting the children before the node itself.
RECURSIVE runners_walk_children_first(_, _, _)
runners_walk_children_first(tree, content, node) ==
    LET RECURSIVE below(_)
        below(kids) ==
            IF kids = <<>> THEN <<>>
            ELSE runners_walk_children_first(tree, content, Head(kids)) \o below(Tail(kids))
    IN  below(tree[node].children) \o runners_at(tree, content, node)

\* find_exported_runners::walk_node: the node, then its children in order.
runners_walk_node(tree, content, node) ==
    runners_at(tree, content, node) \o runners_walk_children(tree, content, tree[node].children)

runners_walk_children(tree, content, kids) ==
    IF kids = <<>> THEN <<>>
    ELSE runners_walk_node(tree, content, Head(kids))
         \o runners_walk_children(tree, content, Tail(kids))

find_exported_runners(ds, single) ==
    LET source == Source(ds, single)
    IN  runners_walk_node(TreeFrom(ds, source.starts, 1), source.content, 0)

\* str::to_lowercase, on the letters the names are written with.
to_lowercase(chars) ==
    [i \in 1..Len(chars) |->
        CASE chars[i] = "F" -> "f"
          [] chars[i] = "D" -> "d"
          [] chars[i] = "S" -> "s"
          [] OTHER -> chars[i]]

\* str::contains.
RECURSIVE contains_from(_, _, _)
contains_from(hay, needle, at) ==
    IF at + Len(needle) - 1 > Len(hay) THEN FALSE
    ELSE \/ SubSeq(hay, at, at + Len(needle) - 1) = needle
         \/ contains_from(hay, needle, at + 1)

contains(hay, needle) == contains_from(hay, needle, 1)

\* The runner whose name is the longest of those the schema's name contains.
find_longest_runner_name(runner_names, name) ==
    LET hits == {k \in 1..Len(runner_names) : contains(Chars(name), Chars(runner_names[k]))}
    IN  IF hits = {} THEN None
        ELSE Some(runner_names[CHOOSE k \in hits :
                      \A other \in hits :
                          \/ Len(Chars(runner_names[other])) < Len(Chars(runner_names[k]))
                          \/ Len(Chars(runner_names[other])) = Len(Chars(runner_names[k]))
                             /\ k <= other])

\* runner_names.iter().find(|runner| name.contains(runner.as_str())).cloned()
RECURSIVE find_runner_name(_, _)
find_runner_name(runner_names, name) ==
    IF runner_names = <<>> THEN None
    ELSE IF contains(Chars(name), Chars(Head(runner_names)))
         THEN Some(Head(runner_names))
         ELSE find_runner_name(Tail(runner_names), name)

\* The loop of find_exported_schemas::walk_node over the children of the
\* declaration.
RECURSIVE schemas_of_declaration(_, _, _, _, _)
schemas_of_declaration(tree, content, runner_names, node, i) ==
    IF i > Len(tree[node].children) THEN <<>>
    ELSE LET child == tree[node].children[i]
             name_node == tree[child].children[1]
             name == content[tree[name_node].start]
         IN  (IF /\ tree[child].kind = "variable_declarator"
                 /\ tree[child].children # <<>>
                 /\ IsIdentifier(tree, name_node)
                 /\ contains(to_lowercase(Chars(name)), Chars("schema"))
              THEN <<SchemaInfo(name, find_runner_name(runner_names, name),
                                get_line_number(tree, content, node))>>
              ELSE <<>>)
             \o schemas_of_declaration(tree, content, runner_names, node, i + 1)

schemas_at(tree, content, runner_names, node) ==
    IF /\ tree[node].kind \in {"lexical_declaration", "variable_declaration"}
       /\ is_exported(tree, node)
    THEN schemas_of_declaration(tree, content, runner_names, node, 1)
    ELSE <<>>

RECURSIVE schemas_walk_node(_, _, _, _)
RECURSIVE schemas_walk_children(_, _, _, _)

\* find_exported_schemas::walk_node: the node, then its children in order.
schemas_walk_node(tree, content, runner_names, node) ==
    schemas_at(tree, content, runner_names, node)
    \o schemas_walk_children(tree, content, runner_names, tree[node].children)

schemas_walk_children(tree, content, runner_names, kids) ==
    IF kids = <<>> THEN <<>>
    ELSE schemas_walk_node(tree, content, runner_names, Head(kids))
         \o schemas_walk_children(tree, content, runner_names, Tail(kids))

find_exported_schemas(ds, single, runner_names) ==
    LET source == Source(ds, single)
    IN  schemas_walk_node(TreeFrom(ds, source.starts, 1), source.content, runner_names, 0)

RunnerNames(found) == [k \in 1..Len(found) |-> found[k].name]

\* One file, and the two calls process_file makes on its text.
DiscoverInit ==
    /\ \E n \in 0..MaxDecls : \E ds \in [1..n -> Decls] : Nested(ds) /\ decls = ds
    /\ one_line \in BOOLEAN
    /\ runners = <<>>
    /\ schemas = <<>>
    /\ xpc = "call"
    /\ ExtractOff
    /\ TransformOff
    /\ DetectOff
    /\ StripOff

FindExportedRunners ==
    /\ xpc = "call"
    /\ runners' = find_exported_runners(decls, one_line)
    /\ xpc' = "runners"
    /\ UNCHANGED <<decls, one_line, schemas, extractVars, transformVars, detectVars, stripVars>>

FindExportedSchemas ==
    /\ xpc = "runners"
    /\ schemas' = find_exported_schemas(decls, one_line, RunnerNames(runners))
    /\ xpc' = "schemas"
    /\ UNCHANGED <<decls, one_line, runners, extractVars, transformVars, detectVars, stripVars>>

DiscoverNext == FindExportedRunners \/ FindExportedSchemas

DiscoverSpec == DiscoverInit /\ [][DiscoverNext]_vars

----------------------------------------------------------------------------
(* schema-extractor's main loop (packages/runners/schema-extractor/src/    *)
(* main.rs) over process_file (file.rs).  A file has a directory, a raw    *)
(* text and declarations; fs::read_to_string fails on some, and for some   *)
(* paths glob yields an error and no path.  glob is the environment: for   *)
(* each pattern it fails, or yields entries in path order.                 *)

DoubleQuotedPragma == <<"\"">> \o Chars("use runner") \o <<"\"">>
SingleQuotedPragma == <<"'">> \o Chars("use runner") \o <<"'">>
Texts == {DoubleQuotedPragma, SingleQuotedPragma, Chars("use runner")}
Dirs == {"src", "node_modules"}

\* What every file declares below its first line.
FileDecls ==
    << [exported |-> TRUE, form |-> "async function", name |-> "fetchData", depth |-> 0],
       [exported |-> TRUE, form |-> "const object", name |-> "fetchDataSchema", depth |-> 0] >>

\* A file; one that cannot be read, or listed, holds the pragma all the same.
Files ==
    [dir : Dirs, state : {"readable"}, text : Texts]
    \cup [dir : {"src"}, state : {"unreadable", "unlistable"}, text : {DoubleQuotedPragma}]

FileLetter(i) == CASE i = 1 -> "a" [] i = 2 -> "b" [] i = 3 -> "c" [] OTHER -> "d"
PathOf(fs, i) == Chars(fs[i].dir) \o <<"/", FileLetter(i), ".", "t", "s">>

\* The glob results: an invalid pattern, or some of the files in path order.
Subsequences(n) ==
    {SelectSeq([i \in 1..n |-> i], LAMBDA i : i \in chosen) : chosen \in SUBSET (1..n)}
GlobResults(n) ==
    {[valid |-> FALSE, entries |-> <<>>]}
    \cup {[valid |-> TRUE, entries |-> entries] : entries \in Subsequences(n)}

\* has_use_runner_directive looking for the words without their quotes.
has_use_runner_unquoted(content) == contains(content, Chars("use runner"))

has_use_runner_directive(content) ==
    contains(content, DoubleQuotedPragma) \/ contains(content, SingleQuotedPragma)

\* str::replace('\\', "/")
replace_backslashes(chars) ==
    [i \in 1..Len(chars) |-> IF chars[i] = "\\" THEN "/" ELSE chars[i]]

SchemaMetadata(file, found_runners, found_schemas) ==
    [file |-> file, runners |-> found_runners, schemas |-> found_schemas]

\* process_file going on with the text of a file that could not be read.
process_file_unchecked_read(fs, i) ==
    IF ~has_use_runner_directive(fs[i].text) THEN None
    ELSE LET found == find_exported_runners(FileDecls, FALSE)
         IN  Some(SchemaMetadata(replace_backslashes(PathOf(fs, i)), found,
                                 find_exported_schemas(FileDecls, FALSE, RunnerNames(found))))

process_file(fs, i) ==
    IF fs[i].state # "readable" THEN None
    ELSE IF ~has_use_runner_directive(fs[i].text) THEN None
         ELSE LET found == find_exported_runners(FileDecls, FALSE)
              IN  Some(SchemaMetadata(replace_backslashes(PathOf(fs, i)), found,
                                      find_exported_schemas(FileDecls, FALSE,
                                                            RunnerNames(found))))

\* Whether process_file got as far as find_exported_runners.
reaches_discovery(fs, i) ==
    fs[i].state = "readable" /\ has_use_runner_directive(fs[i].text)

\* Skip node_modules, dist, .nitro.
skipped(path_str) ==
    \/ contains(path_str, Chars("node_modules"))
    \/ contains(path_str, Chars("/dist/"))
    \/ contains(path_str, Chars("/.nitro/"))

ExtractInit ==
    /\ \E n \in 1..MaxFiles : files \in [1..n -> Files]
    /\ \E n \in 1..DefaultPatterns : globbed \in [1..n -> GlobResults(Len(files))]
    /\ pattern_index = 1
    /\ entry_index = 0
    /\ all_metadata = <<>>
    /\ parsed = <<>>
    /\ epc = "pattern"
    /\ DiscoverOff
    /\ TransformOff
    /\ DetectOff
    /\ StripOff

notExtract == <<discoverVars, transformVars, detectVars, stripVars>>

\* The head of the outer loop: past the last pattern main goes on to write;
\* an invalid pattern is reported and the next one taken.
GlobPattern ==
    /\ epc = "pattern"
    /\ IF pattern_index > Len(globbed)
       THEN epc' = "output" /\ UNCHANGED <<pattern_index, entry_index>>
       ELSE IF globbed[pattern_index].valid
            THEN epc' = "entries" /\ entry_index' = 1 /\ UNCHANGED pattern_index
            ELSE epc' = "pattern" /\ pattern_index' = pattern_index + 1
                 /\ UNCHANGED entry_index
    /\ UNCHANGED <<files, globbed, all_metadata, parsed, notExtract>>

\* One turn of the inner loop, or its end.
GlobEntry ==
    /\ epc = "entries"
    /\ LET entries == globbed[pattern_index].entries IN
       IF entry_index > Len(entries)
       THEN /\ epc' = "pattern"
            /\ pattern_index' = pattern_index + 1
            /\ UNCHANGED <<entry_index, all_metadata, parsed>>
       ELSE /\ entry_index' = entry_index + 1
            /\ UNCHANGED <<epc, pattern_index>>
            /\ LET path == entries[entry_index] IN
               IF files[path].state = "unlistable" \/ skipped(PathOf(files, path))
               THEN UNCHANGED <<all_metadata, parsed>>
               ELSE LET metadata == process_file(files, path) IN
                    /\ all_metadata' = IF metadata # None
                                       THEN Append(all_metadata, metadata[1])
                                       ELSE all_metadata
                    /\ parsed' = IF reaches_discovery(files, path)
                                 THEN Append(parsed, path)
                                 ELSE parsed
    /\ UNCHANGED <<files, globbed, notExtract>>

\* Write output JSON: the directory or the file may fail to be written.
WriteOutput ==
    /\ epc = "output"
    /\ \E outcome \in {"written", "exit 1"} : epc' = outcome
    /\ UNCHANGED <<files, globbed, pattern_index, entry_index, all_metadata, parsed,
                   notExtract>>

ExtractNext == GlobPattern \/ GlobEntry \/ WriteOutput

ExtractSpec == ExtractInit /\ [][ExtractNext]_vars

----------------------------------------------------------------------------
(* The claims.  In(s) and Out(s) are scope s's direct statements before    *)
(* and after the transform; a statement is known by its span.              *)

\* The first run has finished.
Done == pc = "done" /\ pass = 1
\* The run on the first run's output has finished.
DoneAgain == pc = "done" /\ pass = 2
Scopes == DOMAIN input
FunctionScopes == {s \in Scopes : input[s].kind = "function"}
BodyScopes == {s \in Scopes : input[s].kind \in {"function", "arrow"}}
In(s) == input[s].stmts
Out(s) == program[s].stmts
Spans(stmts) == {stmts[k].span : k \in 1..Len(stmts)}
DiagsAt(span) == {k \in 1..Len(diags) : diags[k].span = span}
Emitted(diag) == \E k \in 1..Len(diags) : diags[k] = diag

\* One substitution, one insertion or one deletion turns x into y: the
\* Levenshtein distance of x and y is exactly 1.
DeleteAt(x, k) == SubSeq(x, 1, k - 1) \o SubSeq(x, k + 1, Len(x))
OneDeletion(x, y) == Len(x) = Len(y) + 1 /\ \E k \in 1..Len(x) : DeleteAt(x, k) = y
OneSubstitution(x, y) ==
    Len(x) = Len(y) /\ Cardinality({k \in 1..Len(x) : x[k] # y[k]}) = 1
EditDistanceIsOne(x, y) ==
    OneSubstitution(x, y) \/ OneDeletion(x, y) \/ OneDeletion(y, x)

PragmaStmt(stmt) == stmt.kind = "lit" /\ stmt.value = "use runner"
NearPragmaStmt(stmt) ==
    stmt.kind = "lit" /\ EditDistanceIsOne(Chars(stmt.value), Chars("use runner"))
DirectiveLike(stmt) == PragmaStmt(stmt) \/ NearPragmaStmt(stmt)
OtherLiteral(stmt) == stmt.kind = "lit" /\ ~DirectiveLike(stmt)
NotDirectiveLike(stmt) == ~DirectiveLike(stmt)

\* C1: a function or block-bodied arrow body that starts with "use runner"
\* and repeats it at a later index gets a MisplacedDirective(FunctionBody)
\* for the later statement, and both statements are gone from the output.
C1_RepeatedDirectiveReported ==
    Done =>
        \A s \in BodyScopes : \A k \in 2..Len(In(s)) :
            (PragmaStmt(In(s)[1]) /\ PragmaStmt(In(s)[k])) =>
                /\ Emitted(MisplacedDirective(In(s)[k].span, "FunctionBody"))
                /\ In(s)[1].span \notin Spans(Out(s))
                /\ In(s)[k].span \notin Spans(Out(s))

\* C2: a declared function whose body starts with "use runner" loses that
\* statement; if it is not async exactly one NonAsyncFunction is emitted for
\* the body, at the directive's span, and if it is async none is.
C2_NonAsyncFunctionReported ==
    Done =>
        \A s \in FunctionScopes :
            (In(s) # <<>> /\ PragmaStmt(In(s)[1])) =>
                LET hits == {k \in 1..Len(diags) :
                                /\ diags[k].kind = "NonAsyncFunction"
                                /\ diags[k].span \in Spans(In(s))}
                IN  /\ In(s)[1].span \notin Spans(Out(s))
                    /\ IF input[s].is_async
                       THEN hits = {}
                       ELSE /\ Cardinality(hits) = 1
                            /\ \A k \in hits : diags[k].span = In(s)[1].span

C2_Witness ==
    /\ Done
    /\ \E s \in FunctionScopes :
           ~input[s].is_async /\ In(s) # <<>> /\ PragmaStmt(In(s)[1])

\* The direct statements of scope s other than its first that are "use runner"
\* or within one edit of it.
LaterDirectiveLike(s) == {k \in 2..Len(In(s)) : DirectiveLike(In(s)[k])}
\* The first statement of s is the only such statement of the whole file.
OnlyDirectiveOfFile(s) ==
    /\ LaterDirectiveLike(s) = {}
    /\ \A t \in Scopes \ {s} : \A k \in 1..Len(In(t)) : ~DirectiveLike(In(t)[k])

\* C3: an async function whose body starts with "use runner" and holds no
\* other statement equal to or within one edit of it comes out as its other
\* statements, unchanged and in order, with no diagnostic at any of its
\* statements; when that directive is the only such statement of the file,
\* every other scope comes out as it went in and nothing is emitted.
C3_OnlyDirectiveRemoved ==
    Done =>
        \A s \in FunctionScopes :
            (/\ input[s].is_async
             /\ In(s) # <<>>
             /\ PragmaStmt(In(s)[1])
             /\ LaterDirectiveLike(s) = {}) =>
                /\ Out(s) = Tail(In(s))
                /\ \A k \in 1..Len(diags) : diags[k].span \notin Spans(In(s))
                /\ OnlyDirectiveOfFile(s) =>
                       /\ diags = <<>>
                       /\ \A t \in Scopes \ {s} : Out(t) = In(t)

C3_Witness ==
    /\ Done
    /\ \E s \in FunctionScopes :
           /\ input[s].is_async
           /\ Len(In(s)) >= 2
           /\ PragmaStmt(In(s)[1])
           /\ OnlyDirectiveOfFile(s)
           /\ Len(In(0)) >= 2
           /\ Out(s) = Tail(In(s))

\* C4: a first statement of a scope that is a literal within one edit of
\* "use runner" gets one diagnostic, MisspelledDirective carrying its text,
\* and is gone from the output; a literal that is neither "use runner" nor
\* within one edit of it gets no diagnostic and stays, in order, wherever it is.
C4_MisspelledFirstStatement ==
    Done =>
        \A s \in Scopes :
            /\ (In(s) # <<>> /\ NearPragmaStmt(In(s)[1])) =>
                   /\ Cardinality(DiagsAt(In(s)[1].span)) = 1
                   /\ Emitted(MisspelledDirective(In(s)[1].span, In(s)[1].value))
                   /\ In(s)[1].span \notin Spans(Out(s))
            /\ SelectSeq(Out(s), OtherLiteral) = SelectSeq(In(s), OtherLiteral)
            /\ \A k \in 1..Len(In(s)) : OtherLiteral(In(s)[k]) => DiagsAt(In(s)[k].span) = {}

C4_Witness ==
    /\ Done
    /\ \E s \in Scopes :
           /\ Len(In(s)) >= 2
           /\ NearPragmaStmt(In(s)[1])
           /\ OtherLiteral(In(s)[2])
           /\ Emitted(MisspelledDirective(In(s)[1].span, "use runnerr"))

\* C5: every literal statement within one edit of "use runner", in any scope
\* and at any index, gets a MisspelledDirective carrying its text.
C5_MisspelledAnywhereReported ==
    Done =>
        \A s \in Scopes : \A k \in 1..Len(In(s)) :
            NearPragmaStmt(In(s)[k]) =>
                Emitted(MisspelledDirective(In(s)[k].span, In(s)[k].value))

\* The index of the first "use runner" among the module's items, 0 if none.
FirstModulePragma ==
    LET at == {k \in 1..Len(In(0)) : PragmaStmt(In(0)[k])}
    IN  IF at = {} THEN 0 ELSE CHOOSE k \in at : \A m \in at : k <= m
ModuleMisplaced ==
    {k \in 1..Len(diags) :
        diags[k].kind = "MisplacedDirective" /\ diags[k].location = "Module"}

\* C6: when the module's first "use runner" item is not its first item,
\* exactly one MisplacedDirective(Module) is emitted, at that item's span;
\* when it is the first item, none is.
C6_ModuleMisplacedOnce ==
    Done =>
        (FirstModulePragma # 0 =>
            IF FirstModulePragma > 1
            THEN /\ Cardinality(ModuleMisplaced) = 1
                 /\ \A k \in ModuleMisplaced :
                        diags[k].span = In(0)[FirstModulePragma].span
            ELSE ModuleMisplaced = {})

C6_Witness ==
    /\ Done
    /\ FirstModulePragma > 1
    /\ In(0)[1].kind = "lit"
    /\ ModuleMisplaced # {}

\* C7: after the transform no scope has a "use runner" literal among its
\* direct statements, whatever was emitted.
C7_NoDirectiveLeft ==
    Done => \A s \in Scopes : \A k \in 1..Len(Out(s)) : ~PragmaStmt(Out(s)[k])

C7_Witness ==
    /\ Done
    /\ diags # <<>>
    /\ \E s \in FunctionScopes : \E k \in 2..Len(In(s)) :
           PragmaStmt(In(s)[k]) /\ ~DirectiveLike(In(s)[1])

\* C8: after the transform no scope has a literal within one edit of
\* "use runner" among its direct statements.
C8_NoMisspelledLeft ==
    Done => \A s \in Scopes : \A k \in 1..Len(Out(s)) : ~NearPragmaStmt(Out(s)[k])

\* C9: detect_similar_strings(a, b) is true exactly when the Levenshtein
\* distance of a and b is 1.
C9_DetectsDistanceOne ==
    dpc = "returned" => (similar <=> EditDistanceIsOne(arg_a, arg_b))

C9_Witness ==
    /\ dpc = "returned"
    /\ similar
    /\ Len(arg_a) = 2
    /\ Len(arg_b) = 3
    /\ arg_a[1] # arg_b[1]

\* C10: detect_similar_strings(a, b) = detect_similar_strings(b, a).
C10_DetectSymmetric ==
    dpc = "returned" => (similar <=> detect_similar_strings(arg_b, arg_a))

C10_Witness ==
    /\ dpc = "returned"
    /\ similar
    /\ Len(arg_a) < Len(arg_b)
    /\ arg_a # <<>>

\* C11: remove_directive_from_stmts applied to its own output leaves it as
\* it is, and that output holds no literal equal to or within one edit of
\* "use runner".
C11_StripperIdempotent ==
    spc = "twice" =>
        /\ strip_twice = strip_once
        /\ \A k \in 1..Len(strip_once) : ~DirectiveLike(strip_once[k])

C11_Witness ==
    /\ spc = "twice"
    /\ Len(strip_once) < Len(strip_stmts)
    /\ strip_once # <<>>
    /\ \E k \in 1..Len(strip_once) : OtherLiteral(strip_once[k])

Range(seq) == {seq[k] : k \in 1..Len(seq)}

\* What the handler of scope s emits when its first-statement check and its
\* scan both read the statements of the input tree.
ErrorsOnInput(s) ==
    CASE input[s].kind = "module" -> module_errors(In(s))
      [] input[s].kind = "function" ->
             function_first_stmt(input[s].is_async, In(s)).errors \o misplaced_errors(In(s))
      [] input[s].kind = "arrow" ->
             arrow_first_stmt(In(s)).errors \o misplaced_errors(In(s))

\* C18: the diagnostics emitted are those computed on the untouched input
\* tree: no scope is stripped before its misplaced-directive scan has read it.
C18_DiagnosticsOfInputTree ==
    Done => Range(diags) = UNION {Range(ErrorsOnInput(s)) : s \in Scopes}

\* C19: a run of the transform on the output of a run leaves every scope's
\* statements as they are and emits nothing.
C19_TransformIdempotent ==
    DoneAgain =>
        /\ \A s \in Scopes : program[s].stmts = first_program[s].stmts
        /\ diags = <<>>

C19_Witness ==
    /\ DoneAgain
    /\ first_diags # <<>>
    /\ first_program # input
    /\ \E s \in BodyScopes : \E k \in 1..Len(In(s)) : IsChild(In(s)[k])

\* The file of the example: line 1 an exported async function fetchData,
\* line 2 an exported const FetchDataSchema.
FetchDataFile ==
    /\ decls = << [exported |-> TRUE, form |-> "async function", name |-> "fetchData",
                   depth |-> 0],
                  [exported |-> TRUE, form |-> "const object", name |-> "FetchDataSchema",
                   depth |-> 0] >>
    /\ ~one_line

\* C12: for that file discovery yields exactly [{fetchData, line 1}] and
\* the schema matcher exactly [{FetchDataSchema, runner fetchData, line 2}].
C12_FetchDataExample ==
    (xpc = "schemas" /\ FetchDataFile) =>
        /\ runners = <<RunnerInfo("fetchData", 1)>>
        /\ schemas = <<SchemaInfo("FetchDataSchema", Some("fetchData"), 2)>>

\* The declarations whose bodies hold declaration k, nearest last.
Enclosers(k) ==
    {j \in 1..(k - 1) :
        /\ decls[j].depth < decls[k].depth
        /\ \A i \in (j + 1)..k : decls[i].depth > decls[j].depth}
UnderExport(k) == \E j \in Enclosers(k) \cup {k} : decls[j].exported

IsSubstring(needle, hay) ==
    \E at \in 0..(Len(hay) - Len(needle)) : \A m \in 1..Len(needle) : hay[at + m] = needle[m]
SameLetter(x, y) == x = y \/ <<x, y>> \in {<<"S", "s">>, <<"F", "f">>, <<"D", "d">>}
NamesSchema(name) ==
    LET hay == Chars(name)
        needle == Chars("schema")
    IN  \E at \in 0..(Len(hay) - Len(needle)) :
            \A m \in 1..Len(needle) : SameLetter(hay[at + m], needle[m])

RunnerDecl(k) == IsAsyncForm(decls[k]) /\ UnderExport(k)
SchemaDecl(k) ==
    ~IsFunctionForm(decls[k]) /\ UnderExport(k) /\ NamesSchema(decls[k].name)
InOrder(Qualifies(_)) == SelectSeq([k \in 1..Len(decls) |-> k], Qualifies)
LineOf(k) == IF one_line THEN 1 ELSE k

\* The positions in the runner list of the names the schema's name contains.
Hits(name) ==
    {j \in 1..Len(runners) : IsSubstring(Chars(runners[j].name), Chars(name))}

\* C13: every exported declarator whose name contains "schema" in any case
\* yields one entry, whose runner_name is the first name of the runner list
\* that is a substring of the schema's name, and is absent exactly when no
\* name of the list is one.
C13_FirstRunnerInListOrder ==
    xpc = "schemas" =>
        /\ Len(schemas) = Len(InOrder(SchemaDecl))
        /\ \A i \in 1..Len(schemas) :
               LET hits == Hits(schemas[i].name)
               IN  /\ schemas[i].runner_name = None <=> hits = {}
                   /\ hits # {} =>
                          schemas[i].runner_name =
                              Some(runners[CHOOSE j \in hits : \A h \in hits : j <= h].name)

C13_Witness ==
    /\ xpc = "schemas"
    /\ \E i \in 1..Len(schemas) : \E first \in Hits(schemas[i].name) :
           \E later \in Hits(schemas[i].name) :
               /\ first < later
               /\ Len(Chars(runners[first].name)) < Len(Chars(runners[later].name))
               /\ schemas[i].runner_name = Some(runners[first].name)

\* C14: the runner list and the schema list hold one entry for each
\* qualifying declaration, in the order the declarations are written
\* (pre-order), same names included.
C14_EntriesInPreOrder ==
    xpc = "schemas" =>
        /\ runners = [i \in 1..Len(InOrder(RunnerDecl)) |->
                         RunnerInfo(decls[InOrder(RunnerDecl)[i]].name,
                                    LineOf(InOrder(RunnerDecl)[i]))]
        /\ Len(schemas) = Len(InOrder(SchemaDecl))
        /\ \A i \in 1..Len(schemas) :
               /\ schemas[i].name = decls[InOrder(SchemaDecl)[i]].name
               /\ schemas[i].line = LineOf(InOrder(SchemaDecl)[i])

C14_Witness ==
    /\ xpc = "schemas"
    /\ Len(decls) = 2 /\ decls[2].depth = 1
    /\ Len(runners) = 2 /\ runners[1].name = runners[2].name
    /\ Len(schemas) = 2 /\ schemas[1].name = schemas[2].name
    /\ runners[1].line < runners[2].line

HasPragma(text) ==
    IsSubstring(DoubleQuotedPragma, text) \/ IsSubstring(SingleQuotedPragma, text)
EntriesOf(i) == {k \in 1..Len(all_metadata) : all_metadata[k].file = PathOf(files, i)}
Listed(i) ==
    \E p \in 1..Len(globbed) : \E e \in 1..Len(globbed[p].entries) :
        globbed[p].entries[e] = i

\* C15: a file whose text holds the pragma neither in double nor in single
\* quotes gets no entry and is never handed to discovery, whatever it exports.
C15_NoPragmaNoEntry ==
    \A i \in 1..Len(files) :
        (files[i].state = "readable" /\ ~HasPragma(files[i].text)) =>
            /\ EntriesOf(i) = {}
            /\ \A k \in 1..Len(parsed) : parsed[k] # i

C15_Witness ==
    /\ epc = "output"
    /\ \E i \in 1..Len(files) :
           /\ files[i].state = "readable" /\ ~HasPragma(files[i].text)
           /\ files[i].dir = "src" /\ Listed(i)
           /\ find_exported_runners(FileDecls, FALSE) # <<>>
    /\ all_metadata # <<>>

\* C16: when main has gone through the patterns, every listed file with the
\* pragma has one entry and no file has two, a file two patterns match
\* included.
C16_OneEntryPerFile ==
    epc = "output" =>
        /\ \A i \in 1..Len(files) :
               (/\ Listed(i) /\ files[i].state = "readable" /\ files[i].dir = "src"
                /\ HasPragma(files[i].text)) => Cardinality(EntriesOf(i)) = 1
        /\ \A k, l \in 1..Len(all_metadata) :
               k # l => all_metadata[k].file # all_metadata[l].file

\* What the listings yield: the entries of the files with the pragma, in
\* the order of the listings.
RECURSIVE Flatten(_)
Flatten(listings) ==
    IF listings = <<>> THEN <<>> ELSE Head(listings).entries \o Flatten(Tail(listings))
Yields(i) ==
    files[i].state = "readable" /\ files[i].dir = "src" /\ HasPragma(files[i].text)
EntryOf(i) ==
    SchemaMetadata(PathOf(files, i), find_exported_runners(FileDecls, FALSE),
                   find_exported_schemas(FileDecls, FALSE,
                                         RunnerNames(find_exported_runners(FileDecls, FALSE))))
Aggregate(listings) ==
    LET found == SelectSeq(Flatten(listings), Yields)
    IN  [k \in 1..Len(found) |-> EntryOf(found[k])]
WithoutUnreadable(listings) ==
    [p \in 1..Len(listings) |->
        [valid |-> listings[p].valid,
         entries |-> SelectSeq(listings[p].entries,
                               LAMBDA i : files[i].state # "unreadable")]]

\* Where main is in its loops: at a pattern or one past the last, and in the
\* inner loop at an entry of the pattern or one past its last.
InLoops ==
    /\ pattern_index \in 1..(Len(globbed) + 1)
    /\ epc = "entries" =>
           /\ pattern_index <= Len(globbed)
           /\ entry_index \in 1..(Len(globbed[pattern_index].entries) + 1)

\* C17: a file that cannot be read adds no entry and the loop goes on with
\* the entry after it; main stays in its loops until it is past the last
\* pattern, on its way to writing the output, and the entries then are
\* those of the same listings without the files that could not be read.
C17_ReadFailureIsolated ==
    /\ [][(/\ epc = "entries"
           /\ entry_index <= Len(globbed[pattern_index].entries)
           /\ files[globbed[pattern_index].entries[entry_index]].state = "unreadable")
          => (/\ epc' = "entries"
              /\ entry_index' = entry_index + 1
              /\ all_metadata' = all_metadata)]_vars
    /\ [](epc \in {"pattern", "entries"} => InLoops)
    /\ [](epc = "output" =>
              /\ pattern_index = Len(globbed) + 1
              /\ all_metadata = Aggregate(WithoutUnreadable(globbed)))

C17_Witness ==
    /\ epc = "output"
    /\ \E p \in 1..Len(globbed) : \E a, b \in 1..Len(globbed[p].entries) :
           /\ a < b
           /\ files[globbed[p].entries[a]].state = "unreadable"
           /\ EntriesOf(globbed[p].entries[b]) # {}

====
